---- MODULE Spec2Model ----
(***************************************************************************)
(* Model of the sfgarden MCP tool handlers: the seedling lifecycle         *)
(* (tools/seedlings.ts), the planting, harvest and note tools and the      *)
(* grid label functions (utils/grid.ts), over the relational store         *)
(* declared by supabase/migrations.                                        *)
(*                                                                         *)
(* A tool call is one action: the handler runs from its first store query  *)
(* to its return.  The variable `last` holds what the most recent call     *)
(* was given and what its handler returned.  Columns that no modelled      *)
(* handler reads (variety, count, notes, sown_at, planted_at) are left     *)
(* out of the rows.  The variable `retired` is a history variable: the     *)
(* ids of the plantings whose status has been harvested or failed at some  *)
(* point; no handler reads it.  cachedSchema is the module variable of     *)
(* the server index, and catalog the version of the database catalog.      *)
(***************************************************************************)
EXTENDS Integers, Sequences, FiniteSets, TLC

VARIABLES seedlings, plantings, gardens, harvests, notes, retired,
          inflight, cachedSchema, catalog, last

vars == <<seedlings, plantings, gardens, harvests, notes, retired,
          inflight, cachedSchema, catalog, last>>

(***************************************************************************)
(* Bounds of the model.                                                    *)
(***************************************************************************)
MaxSeedlings == 1
MaxDate == 2
MaxPlantings == 2
MaxSquares == 2
MaxGardens == 1
MaxHarvests == 2
MaxNotes == 1
MaxCalls == 2
MaxCatalog == 2

(***************************************************************************)
(* JavaScript values.                                                      *)
(***************************************************************************)
Undefined == "undefined"
Null == "null"
EmptyString == ""

\* JavaScript truthiness of an optional string argument.
Truthy(v) == v \notin {Undefined, Null, EmptyString}

\* a ?? b
Coalesce(a, b) == IF a \in {Undefined, Null} THEN b ELSE a

\* Array.prototype.indexOf, 0-based, -1 when absent.
indexOf(arr, x) ==
  IF \E i \in 1..Len(arr) : arr[i] = x
  THEN (CHOOSE i \in 1..Len(arr) :
          arr[i] = x /\ \A j \in 1..(i - 1) : arr[j] # x) - 1
  ELSE -1

\* Dates are YYYY-MM-DD strings; day d of the model is the string "D<d>".
DateStr(d) == "D" \o ToString(d)

Dates == {DateStr(d) : d \in 1..MaxDate}

(***************************************************************************)
(* Calls in progress.  A handler that awaits the store gives way to other  *)
(* calls of the process at each await; `inflight` holds, for each call     *)
(* that may run at the same time, where it stands and its local values.    *)
(* In the specifications that run each call in one step it stays NoCalls.  *)
(***************************************************************************)
Slots == 1..MaxCalls

Idle == [pc |-> "idle"]

NoCalls == [r \in Slots |-> Idle]

(***************************************************************************)
(* Seedling lifecycle.                                                     *)
(***************************************************************************)
PHASES_failedFirst ==
  <<"failed", "sown", "germinated", "true_leaves", "hardening", "transplanted">>

PHASES ==
  <<"sown", "germinated", "true_leaves", "hardening", "transplanted", "failed">>

PhaseSet == {PHASES[i] : i \in 1..Len(PHASES)}

SeedlingId(i) == "S" \o ToString(i)
PlantingId(i) == "P" \o ToString(i)

SeedlingIdArgs == {SeedlingId(i) : i \in 1..MaxSeedlings}
PlantingIdArgs == {PlantingId(i) : i \in 1..MaxPlantings}

\* supabase.from("seedlings").select("*").eq("id", id).single()
\* The rows returned; .single() yields an error unless there is exactly one.
FetchSeedling(id) == SelectSeq(seedlings, LAMBDA r : r.id = id)

PhaseCheckFails_flipped(currentPhase, phase) ==
  phase # "failed" /\ indexOf(PHASES, phase) >= indexOf(PHASES, currentPhase)

PhaseCheckFails_strict(currentPhase, phase) ==
  phase # "failed" /\ indexOf(PHASES, phase) < indexOf(PHASES, currentPhase)

\* The guard of the "Validate phase progression" block.
PhaseCheckFails(currentPhase, phase) ==
  phase # "failed" /\ indexOf(PHASES, phase) <= indexOf(PHASES, currentPhase)

SeedlingUpdate_alwaysLinks(row, phase, planting_id, date, now) ==
  [row EXCEPT !.phase = phase,
              !.phase_changed_at = Coalesce(date, now),
              !.planting_id = IF Truthy(planting_id)
                              THEN planting_id ELSE @]

\* The `update` record applied to the fetched row.
SeedlingUpdate(row, phase, planting_id, date, now) ==
  [row EXCEPT !.phase = phase,
              !.phase_changed_at = Coalesce(date, now),
              !.planting_id = IF phase = "transplanted" /\ Truthy(planting_id)
                              THEN planting_id ELSE @]

SeedlingCall(id, phase, planting_id, error, from, text) ==
  [tool |-> "sfg_advance_seedling_phase", seedling_id |-> id, phase |-> phase,
   planting_id |-> planting_id,
   isError |-> error # "none", error |-> error, from |-> from, text |-> text]

sfg_start_seedlings(sown_at, now, userOk, storeOk) ==
  /\ Len(seedlings) < MaxSeedlings
  /\ LET date == Coalesce(sown_at, now)
         id == SeedlingId(Len(seedlings) + 1)
     IN IF ~userOk
        THEN /\ last' = [tool |-> "sfg_start_seedlings", isError |-> TRUE,
                         error |-> "no_user", id |-> Null]
             /\ UNCHANGED seedlings
        ELSE IF ~storeOk
        THEN /\ last' = [tool |-> "sfg_start_seedlings", isError |-> TRUE,
                         error |-> "store", id |-> Null]
             /\ UNCHANGED seedlings
        ELSE /\ seedlings' = Append(seedlings,
                   [id |-> id, phase |-> "sown",
                    phase_changed_at |-> date, planting_id |-> Null])
             /\ last' = [tool |-> "sfg_start_seedlings", isError |-> FALSE,
                         error |-> "none", id |-> id]
  /\ UNCHANGED <<plantings, gardens, harvests, notes, retired,
               inflight, cachedSchema, catalog>>

sfg_advance_seedling_phase(seedling_id, phase, planting_id, date, now, storeOk) ==
  /\ LET fetched == FetchSeedling(seedling_id)
         seedling == fetched[1]
     IN IF Len(fetched) # 1
        THEN /\ last' = SeedlingCall(seedling_id, phase, planting_id,
                                     "not_found", Null, <<"not found", seedling_id>>)
             /\ UNCHANGED seedlings
        ELSE IF PhaseCheckFails(seedling.phase, phase)
        THEN /\ last' = SeedlingCall(seedling_id, phase, planting_id,
                                     "invalid_transition", seedling.phase,
                                     <<"Cannot move from", seedling.phase, "to", phase>>)
             /\ UNCHANGED seedlings
        ELSE IF ~storeOk
        THEN /\ last' = SeedlingCall(seedling_id, phase, planting_id,
                                     "store", seedling.phase, <<"store error">>)
             /\ UNCHANGED seedlings
        ELSE /\ seedlings' =
                  [i \in 1..Len(seedlings) |->
                     IF seedlings[i].id = seedling_id
                     THEN SeedlingUpdate(seedlings[i], phase, planting_id, date, now)
                     ELSE seedlings[i]]
             /\ last' = SeedlingCall(seedling_id, phase, planting_id,
                                     "none", seedling.phase,
                                     <<"advanced to", phase,
                                       IF phase = "transplanted" /\ Truthy(planting_id)
                                       THEN planting_id ELSE Null>>)
  /\ UNCHANGED <<plantings, gardens, harvests, notes, retired,
               inflight, cachedSchema, catalog>>

\* The clock (new Date()) is read only when the date argument is omitted.
Clock(date) == IF date = Undefined THEN Dates ELSE {DateStr(1)}

StartSeedlings ==
  \E sown_at \in Dates \cup {Undefined}, userOk \in BOOLEAN, storeOk \in BOOLEAN :
    \E now \in Clock(sown_at) :
      sfg_start_seedlings(sown_at, now, userOk, storeOk)

AdvanceSeedlingPhase ==
  \E seedling_id \in SeedlingIdArgs, phase \in PhaseSet,
     planting_id \in {Undefined, EmptyString, PlantingId(1)},
     date \in Dates \cup {Undefined}, storeOk \in BOOLEAN :
    \E now \in Clock(date) :
      sfg_advance_seedling_phase(seedling_id, phase, planting_id, date, now, storeOk)

Init ==
  /\ seedlings = <<>>
  /\ plantings = <<>>
  /\ gardens = <<>>
  /\ harvests = <<>>
  /\ notes = <<>>
  /\ retired = {}
  /\ inflight = NoCalls
  /\ cachedSchema = Null
  /\ catalog = 1
  /\ last = [tool |-> "none", isError |-> FALSE, error |-> "none"]

NextSeedling ==
  \/ StartSeedlings
  \/ AdvanceSeedlingPhase

SpecSeedling == Init /\ [][NextSeedling]_vars

\* sfg_advance_seedling_phase in the two steps its awaits divide it into.
\* First the fetch of the seedling and the check of the transition on the
\* fetched row; a refused call returns here.
AdvanceFetch(p, seedling_id, phase, planting_id, date) ==
  /\ inflight[p].pc = "idle"
  /\ LET fetched == FetchSeedling(seedling_id)
         seedling == fetched[1]
     IN IF Len(fetched) # 1
        THEN /\ last' = SeedlingCall(seedling_id, phase, planting_id,
                                     "not_found", Null, <<"not found", seedling_id>>)
             /\ UNCHANGED inflight
        ELSE IF PhaseCheckFails(seedling.phase, phase)
        THEN /\ last' = SeedlingCall(seedling_id, phase, planting_id,
                                     "invalid_transition", seedling.phase,
                                     <<"Cannot move from", seedling.phase, "to", phase>>)
             /\ UNCHANGED inflight
        ELSE /\ inflight' = [inflight EXCEPT ![p] =
                    [pc |-> "checked", seedling_id |-> seedling_id,
                     phase |-> phase, planting_id |-> planting_id,
                     date |-> date, seedling |-> seedling]]
             /\ UNCHANGED last
  /\ UNCHANGED <<seedlings, plantings, gardens, harvests, notes, retired,
                 cachedSchema, catalog>>

\* Then the update of the row with the given id, whatever its phase is by
\* now, and the return.
AdvanceUpdate(p, now, storeOk) ==
  /\ inflight[p].pc = "checked"
  /\ LET c == inflight[p]
     IN IF ~storeOk
        THEN /\ last' = SeedlingCall(c.seedling_id, c.phase, c.planting_id,
                                     "store", c.seedling.phase, <<"store error">>)
             /\ UNCHANGED seedlings
        ELSE /\ seedlings' =
                  [i \in 1..Len(seedlings) |->
                     IF seedlings[i].id = c.seedling_id
                     THEN SeedlingUpdate(seedlings[i], c.phase, c.planting_id,
                                         c.date, now)
                     ELSE seedlings[i]]
             /\ last' = SeedlingCall(c.seedling_id, c.phase, c.planting_id,
                                     "none", c.seedling.phase,
                                     <<"advanced to", c.phase,
                                       IF c.phase = "transplanted"
                                            /\ Truthy(c.planting_id)
                                       THEN c.planting_id ELSE Null>>)
  /\ inflight' = [inflight EXCEPT ![p] = Idle]
  /\ UNCHANGED <<plantings, gardens, harvests, notes, retired,
                 cachedSchema, catalog>>

AdvanceFetches ==
  \E p \in Slots, seedling_id \in SeedlingIdArgs, phase \in PhaseSet,
     planting_id \in {Undefined, PlantingId(1)},
     date \in {Undefined, DateStr(1)} :
    AdvanceFetch(p, seedling_id, phase, planting_id, date)

AdvanceUpdates ==
  \E p \in Slots, storeOk \in BOOLEAN :
    /\ inflight[p].pc = "checked"
    /\ \E now \in Clock(inflight[p].date) :
         AdvanceUpdate(p, now, storeOk)

NextSeedlingOverlap ==
  \/ StartSeedlings
  \/ AdvanceFetches
  \/ AdvanceUpdates

SpecSeedlingOverlap == Init /\ [][NextSeedlingOverlap]_vars


(***************************************************************************)
(* Strings.  A string of the program is a sequence of one-character        *)
(* strings, so that case conversion, trimming and pattern matching are     *)
(* computed character by character.                                        *)
(***************************************************************************)
UpperLetters ==
  <<"A", "B", "C", "D", "E", "F", "G", "H", "I", "J", "K", "L", "M",
    "N", "O", "P", "Q", "R", "S", "T", "U", "V", "W", "X", "Y", "Z">>

LowerLetters ==
  <<"a", "b", "c", "d", "e", "f", "g", "h", "i", "j", "k", "l", "m",
    "n", "o", "p", "q", "r", "s", "t", "u", "v", "w", "x", "y", "z">>

Digits == <<"0", "1", "2", "3", "4", "5", "6", "7", "8", "9">>

Whitespace == {" "}

\* The character classes [A-Z] and \d.
UpperClass == {UpperLetters[i] : i \in 1..Len(UpperLetters)}

DigitClass == {Digits[i] : i \in 1..Len(Digits)}

\* The upper-case form of each lower-case letter.
UpperOf ==
  [c \in {LowerLetters[i] : i \in 1..Len(LowerLetters)} |->
     UpperLetters[indexOf(LowerLetters, c) + 1]]

\* String.prototype.toUpperCase
toUpperCase(str) ==
  [i \in 1..Len(str) |->
     IF str[i] \in DOMAIN UpperOf THEN UpperOf[str[i]] ELSE str[i]]

RECURSIVE trimStart(_)
trimStart(str) ==
  IF str # <<>> /\ Head(str) \in Whitespace THEN trimStart(Tail(str)) ELSE str

RECURSIVE trimEnd(_)
trimEnd(str) ==
  IF str # <<>> /\ str[Len(str)] \in Whitespace
  THEN trimEnd(SubSeq(str, 1, Len(str) - 1))
  ELSE str

\* String.prototype.trim
trim(str) == trimEnd(trimStart(str))

\* Length of the longest prefix of str made of characters of class.
RECURSIVE PrefixLen(_, _)
PrefixLen(str, class) ==
  IF str # <<>> /\ Head(str) \in class THEN 1 + PrefixLen(Tail(str), class) ELSE 0

MatchLabel_singleLetter(str) ==
  IF Len(str) >= 2 /\ str[1] \in UpperClass
       /\ PrefixLen(Tail(str), DigitClass) = Len(str) - 1
  THEN <<SubSeq(str, 1, 1), Tail(str)>>
  ELSE <<>>

\* str.match(/^([A-Z]+)(\d+)$/): <<letters, digits>>, or <<>> for null.
MatchLabel(str) ==
  LET n == PrefixLen(str, UpperClass)
      rest == SubSeq(str, n + 1, Len(str))
  IN IF n >= 1 /\ rest # <<>> /\ PrefixLen(rest, DigitClass) = Len(rest)
     THEN <<SubSeq(str, 1, n), rest>>
     ELSE <<>>

DigitValue == [c \in DigitClass |-> indexOf(Digits, c)]

\* parseInt(digits, 10) of a string of decimal digits.
RECURSIVE parseInt(_)
parseInt(digits) ==
  IF digits = <<>> THEN 0
  ELSE parseInt(SubSeq(digits, 1, Len(digits) - 1)) * 10
         + DigitValue[digits[Len(digits)]]

(***************************************************************************)
(* utils/grid.ts                                                           *)
(***************************************************************************)
\* colToLetter: the loop prepends the letter of (col - 1) % 26 and goes on
\* with floor((col - 1) / 26) while col > 0.
\* String.fromCharCode for the codes of A-Z.
fromCharCode(code) == UpperLetters[code - 64]

RECURSIVE colToLetter_appends(_)
colToLetter_appends(col) ==
  IF col > 0
  THEN <<fromCharCode(65 + ((col - 1) % 26))>>
         \o colToLetter_appends((col - 1) \div 26)
  ELSE <<>>

RECURSIVE colToLetter(_)
colToLetter(col) ==
  IF col > 0
  THEN colToLetter((col - 1) \div 26) \o <<fromCharCode(65 + ((col - 1) % 26))>>
  ELSE <<>>

\* charCodeAt(0) of the letters A-Z.
CharCode == [c \in UpperClass |-> 65 + indexOf(UpperLetters, c)]

RECURSIVE ColAcc(_, _)
ColAcc(upper, col) ==
  IF upper = <<>> THEN col
  ELSE ColAcc(Tail(upper), col * 26 + (CharCode[Head(upper)] - 64))

\* letterToCol: <<col>>, or <<>> for NaN.
letterToCol(letter) ==
  LET upper == toUpperCase(letter)
  IN IF upper = <<>> \/ PrefixLen(upper, UpperClass) # Len(upper)
     THEN <<>>
     ELSE <<ColAcc(upper, 0)>>

\* Comparisons with NaN are false.
NumLt(a, b) == a # <<>> /\ b # <<>> /\ a[1] < b[1]

\* The bounds check of validateLabels: col < 1 || col > cols.
ColumnOutOfRange(col, cols) == NumLt(col, <<1>>) \/ NumLt(<<cols>>, col)

NoError == [kind |-> "ok", label |-> <<>>, detail |-> <<>>]

ValidateLabel_rowFirst(label, cols, rows) ==
  LET match == MatchLabel(toUpperCase(trim(label)))
  IN IF match = <<>>
     THEN [kind |-> "InvalidLabel", label |-> label, detail |-> <<>>]
     ELSE LET col == letterToCol(match[1])
              row == parseInt(match[2])
          IN IF row < 1 \/ row > rows
             THEN [kind |-> "RowOutOfRange", label |-> label,
                   detail |-> <<row, rows>>]
             ELSE IF ColumnOutOfRange(col, cols)
             THEN [kind |-> "ColumnOutOfRange", label |-> label,
                   detail |-> <<match[1], colToLetter(cols)>>]
             ELSE NoError

\* One iteration of the loop of validateLabels: the error thrown for the
\* label, or NoError.
ValidateLabel(label, cols, rows) ==
  LET match == MatchLabel(toUpperCase(trim(label)))
  IN IF match = <<>>
     THEN [kind |-> "InvalidLabel", label |-> label, detail |-> <<>>]
     ELSE LET col == letterToCol(match[1])
              row == parseInt(match[2])
          IN IF ColumnOutOfRange(col, cols)
             THEN [kind |-> "ColumnOutOfRange", label |-> label,
                   detail |-> <<match[1], colToLetter(cols)>>]
             ELSE IF row < 1 \/ row > rows
             THEN [kind |-> "RowOutOfRange", label |-> label,
                   detail |-> <<row, rows>>]
             ELSE NoError

RECURSIVE validateLabels_reportsLast(_, _, _)
validateLabels_reportsLast(labels, cols, rows) ==
  IF labels = <<>> THEN NoError
  ELSE LET e == validateLabels_reportsLast(Tail(labels), cols, rows)
       IN IF e.kind # "ok" THEN e ELSE ValidateLabel(Head(labels), cols, rows)

validateLabels_acceptsAll(labels, cols, rows) == NoError

\* validateLabels: throws on the first invalid label.
RECURSIVE validateLabels(_, _, _)
validateLabels(labels, cols, rows) ==
  IF labels = <<>> THEN NoError
  ELSE LET e == ValidateLabel(Head(labels), cols, rows)
       IN IF e.kind # "ok" THEN e ELSE validateLabels(Tail(labels), cols, rows)

(***************************************************************************)
(* Gardens and plantings.                                                  *)
(***************************************************************************)
\* Square arguments of the calls of the model: A1 in lower case, A1 with a
\* leading zero, a second square, and a column outside the grid.
RawLabels ==
  {<<"a", "1">>, <<"A", "0", "1">>, <<"B", "1">>, <<"C", "1">>}

\* squares: z.array(z.string()).min(1)
SquareLists == UNION {[1..n -> RawLabels] : n \in 1..MaxSquares}

TwoSquareLists ==
  UNION {[1..n -> {<<"A", "1">>, <<"B", "1">>}] : n \in 1..MaxSquares}

PlantNames == {"Tomato"}

Statuses == {"active", "harvested", "failed"}

\* Extents of the gardens created in the model.
GardenSizes == {[cols |-> 2, rows |-> 2]}

GardenId(i) == "G" \o ToString(i)

GardenIdArgs == {GardenId(i) : i \in 1..MaxGardens}

Range(seq) == {seq[i] : i \in 1..Len(seq)}

\* The orders in which a query without ORDER BY may return the rows of
\* `table` whose indices are in `rows`.
RowOrders(table, rows) ==
  LET n == Cardinality(rows)
  IN {[i \in 1..n |-> table[f[i]]] :
        f \in {g \in [1..n -> rows] : \A i, j \in 1..n : g[i] = g[j] => i = j}}

OccupancyLookup_anyStatus(garden_id, labels) ==
  LET rows == {i \in 1..Len(plantings) :
                 /\ plantings[i].garden_id = garden_id
                 /\ plantings[i].square \in Range(labels)}
  IN {[error |-> FALSE, data |-> d] : d \in RowOrders(plantings, rows)}
       \cup {[error |-> TRUE, data |-> <<>>]}

\* .from("plantings").select("square, plant_name").eq("garden_id", garden_id)
\*   .eq("status", "active").in("square", labels)
\* The responses the store may give: the matching rows in some order, or
\* an error with no data.
OccupancyLookup(garden_id, labels) ==
  LET rows == {i \in 1..Len(plantings) :
                 /\ plantings[i].garden_id = garden_id
                 /\ plantings[i].status = "active"
                 /\ plantings[i].square \in Range(labels)}
  IN {[error |-> FALSE, data |-> d] : d \in RowOrders(plantings, rows)}
       \cup {[error |-> TRUE, data |-> <<>>]}

\* The warnings loop over `existing`.
Warnings(existing) ==
  [i \in 1..Len(existing) |-> <<existing[i].square, existing[i].plant_name>>]

ConflictStep_unguarded(lookup) ==
  [thrown |-> lookup.error, warnings |-> Warnings(lookup.data)]

\* The conflict check: only `data` of the store's answer is read, and the
\* loop runs under `if (existing && existing.length > 0)`, so that an
\* answer without data gives an empty list and nothing is thrown.
ConflictStep(lookup) ==
  [thrown |-> FALSE,
   warnings |-> IF ~lookup.error /\ Len(lookup.data) > 0
                THEN Warnings(lookup.data) ELSE <<>>]

InsertLabels_skipWhenWarned(labels, warnings) ==
  IF warnings # <<>> THEN <<>> ELSE labels

\* The labels the insert loop iterates over: all of them, whatever the
\* warnings are.
InsertLabels(labels, warnings) == labels

\* The row an insert creates: id and status take their column defaults.
NewPlanting(n, garden_id, label, plant_name) ==
  [id |-> PlantingId(n), garden_id |-> garden_id, square |-> label,
   plant_name |-> plant_name, status |-> "active"]

\* What the most recent sfg_add_planting call did and returned: the error
\* and what its message names, or the created plantings and the warnings;
\* labels are the upper-cased candidate labels (none when the garden was
\* not found), and lookupError tells whether the store answered the occupancy query
\* with an error.
AddPlantingResult(garden_id, labels, error, detail, lookupError, warnings, created) ==
  [tool |-> "sfg_add_planting", garden_id |-> garden_id, labels |-> labels,
   isError |-> error # "none", error |-> error, detail |-> detail,
   lookupError |-> lookupError, warnings |-> warnings, created |-> created]

sfg_create_garden(size, userOk, storeOk) ==
  /\ Len(gardens) < MaxGardens
  /\ LET id == GardenId(Len(gardens) + 1)
     IN IF ~userOk
        THEN /\ last' = [tool |-> "sfg_create_garden", isError |-> TRUE,
                         error |-> "no_user", id |-> Null]
             /\ UNCHANGED gardens
        ELSE IF ~storeOk
        THEN /\ last' = [tool |-> "sfg_create_garden", isError |-> TRUE,
                         error |-> "store", id |-> Null]
             /\ UNCHANGED gardens
        ELSE /\ gardens' = Append(gardens,
                   [id |-> id, cols |-> size.cols, rows |-> size.rows])
             /\ last' = [tool |-> "sfg_create_garden", isError |-> FALSE,
                         error |-> "none", id |-> id]
  /\ UNCHANGED <<seedlings, plantings, harvests, notes, retired,
               inflight, cachedSchema, catalog>>

\* The store answers the occupancy query with `lookup` and rejects the
\* failAt-th insert of the call (none when failAt = 0).  An exception
\* thrown inside the handler ends the call with an error result.
sfg_add_planting(garden_id, squares, plant_name) ==
  /\ LET fetched == SelectSeq(gardens, LAMBDA g : g.id = garden_id)
         garden == fetched[1]
         labels == [i \in 1..Len(squares) |-> toUpperCase(squares[i])]
     IN IF Len(fetched) # 1
        THEN /\ last' = AddPlantingResult(garden_id, <<>>, "garden_not_found",
                                          <<>>, FALSE, <<>>, <<>>)
             /\ UNCHANGED plantings
        ELSE LET thrown == validateLabels(labels, garden.cols, garden.rows)
             IN IF thrown.kind # "ok"
                THEN /\ last' = AddPlantingResult(garden_id, labels, "validation",
                                                  thrown, FALSE, <<>>, <<>>)
                     /\ UNCHANGED plantings
                ELSE \E lookup \in OccupancyLookup(garden_id, labels),
                        failAt \in 0..Len(labels) :
                       LET step == ConflictStep(lookup)
                           warnings == step.warnings
                           todo == IF step.thrown THEN <<>>
                                   ELSE InsertLabels(labels, warnings)
                           done == IF failAt \in 1..Len(todo)
                                   THEN failAt - 1 ELSE Len(todo)
                           rows == [i \in 1..done |->
                                      NewPlanting(Len(plantings) + i, garden_id,
                                                  todo[i], plant_name)]
                       IN /\ plantings' = plantings \o rows
                          /\ last' =
                               IF step.thrown
                               THEN AddPlantingResult(garden_id, labels, "exception",
                                                      <<>>, lookup.error,
                                                      <<>>, <<>>)
                               ELSE IF done < Len(todo)
                               THEN AddPlantingResult(garden_id, labels, "insert",
                                                      todo[done + 1], lookup.error,
                                                      <<>>, <<>>)
                               ELSE AddPlantingResult(garden_id, labels, "none",
                                                      <<>>, lookup.error, warnings,
                                                      [i \in 1..done |->
                                                         <<rows[i].id, todo[i]>>])
  /\ UNCHANGED <<seedlings, gardens, harvests, notes, retired,
               inflight, cachedSchema, catalog>>

\* The ids of the plantings of `table` that are harvested or failed.
Retired(table) ==
  {table[i].id : i \in {j \in 1..Len(table) :
                          table[j].status \in {"harvested", "failed"}}}

\* .update({ status }).eq("id", planting_id).select(...).single()
sfg_update_planting_status(planting_id, status, storeOk) ==
  /\ LET hit == {i \in 1..Len(plantings) : plantings[i].id = planting_id}
     IN IF ~storeOk \/ Cardinality(hit) # 1
        THEN /\ last' = [tool |-> "sfg_update_planting_status",
                         isError |-> TRUE, error |-> "error"]
             /\ UNCHANGED plantings
        ELSE /\ plantings' = [i \in 1..Len(plantings) |->
                                IF i \in hit
                                THEN [plantings[i] EXCEPT !.status = status]
                                ELSE plantings[i]]
             /\ last' = [tool |-> "sfg_update_planting_status",
                         isError |-> FALSE, error |-> "none",
                         planting_id |-> planting_id, status |-> status]
  /\ retired' = retired \cup Retired(plantings')
  /\ UNCHANGED <<seedlings, gardens, harvests, notes,
               inflight, cachedSchema, catalog>>

CreateGarden ==
  \E size \in GardenSizes, userOk \in BOOLEAN, storeOk \in BOOLEAN :
    sfg_create_garden(size, userOk, storeOk)

\* A call whose squares argument is one of `lists`, while the plantings
\* table has room for its rows below `cap`.
AddPlantingFrom(lists, cap) ==
  \E garden_id \in GardenIdArgs, squares \in lists, plant_name \in PlantNames :
    /\ Len(plantings) + Len(squares) <= cap
    /\ sfg_add_planting(garden_id, squares, plant_name)

AddPlanting == AddPlantingFrom(SquareLists, MaxPlantings)

\* Calls that name the two squares A1 and B1 in their normal spelling, with
\* room for a second call on squares that are all occupied.
AddPlantingTwoSquares ==
  AddPlantingFrom(TwoSquareLists, MaxPlantings + MaxSquares)

UpdatePlantingStatus ==
  \E planting_id \in PlantingIdArgs, status \in Statuses, storeOk \in BOOLEAN :
    sfg_update_planting_status(planting_id, status, storeOk)

\* mark_complete: z.boolean().optional()
MarkCompleteArgs == {Undefined, "true", "false"}

HarvestId(i) == "H" \o ToString(i)

HarvestStatusUpdate_allPlantings(table, planting_id, mark_complete, updateOk) ==
  IF mark_complete = "true" /\ updateOk
  THEN [i \in 1..Len(table) |-> [table[i] EXCEPT !.status = "harvested"]]
  ELSE table

\* if (mark_complete) .from("plantings").update({ status: "harvested" })
\*   .eq("id", planting_id): the plantings table after the handler.
HarvestStatusUpdate(table, planting_id, mark_complete, updateOk) ==
  IF mark_complete = "true" /\ updateOk
  THEN [i \in 1..Len(table) |->
          IF table[i].id = planting_id
          THEN [table[i] EXCEPT !.status = "harvested"]
          ELSE table[i]]
  ELSE table

HarvestResult(planting_id, mark_complete, error, id, marked) ==
  [tool |-> "sfg_record_harvest", planting_id |-> planting_id,
   mark_complete |-> mark_complete, isError |-> error # "none",
   error |-> error, id |-> id, marked |-> marked]

\* fetchOk, insertOk, updateOk: whether the store answers the planting
\* lookup, the harvest insert and the status update without an error.
sfg_record_harvest(planting_id, mark_complete, fetchOk, insertOk, updateOk) ==
  /\ Len(harvests) < MaxHarvests
  /\ LET hit == {i \in 1..Len(plantings) : plantings[i].id = planting_id}
         id == HarvestId(Len(harvests) + 1)
     IN IF ~fetchOk \/ Cardinality(hit) # 1
        THEN /\ last' = HarvestResult(planting_id, mark_complete,
                                      "not_found", Null, FALSE)
             /\ UNCHANGED <<harvests, plantings>>
        ELSE IF ~insertOk
        THEN /\ last' = HarvestResult(planting_id, mark_complete,
                                      "store", Null, FALSE)
             /\ UNCHANGED <<harvests, plantings>>
        ELSE /\ harvests' = Append(harvests,
                                   [id |-> id, planting_id |-> planting_id])
             /\ plantings' = HarvestStatusUpdate(plantings, planting_id,
                                                 mark_complete, updateOk)
             /\ last' = HarvestResult(planting_id, mark_complete, "none", id,
                                      mark_complete = "true" /\ updateOk)
  /\ retired' = retired \cup Retired(plantings')
  /\ UNCHANGED <<seedlings, gardens, notes, inflight, cachedSchema, catalog>>

RecordHarvest ==
  \E planting_id \in PlantingIdArgs, mark_complete \in MarkCompleteArgs,
     fetchOk \in BOOLEAN, insertOk \in BOOLEAN, updateOk \in BOOLEAN :
    sfg_record_harvest(planting_id, mark_complete, fetchOk, insertOk, updateOk)

\* Calls that all name the square A1.
AddPlantingOneSquare ==
  AddPlantingFrom({<<<<"A", "1">>>>}, MaxPlantings)

NextHarvest ==
  \/ CreateGarden
  \/ AddPlantingOneSquare
  \/ UpdatePlantingStatus
  \/ RecordHarvest

SpecHarvest == Init /\ [][NextHarvest]_vars

(***************************************************************************)
(* Notes.  An optional string argument is <<>> when it is omitted and      *)
(* <<str>> when it is given, str being the sequence of its characters; a   *)
(* nullable text column likewise.                                          *)
(***************************************************************************)
NoteId(i) == "N" \o ToString(i)

\* Square arguments with other spellings of A1 (lower case, a leading
\* blank, a leading zero), a column and a row outside the grid.
SpelledLabels ==
  {<<"a", "1">>, <<" ", "A", "1">>, <<"A", "0", "1">>,
   <<"C", "1">>, <<"A", "3">>}

SpelledLists == UNION {[1..n -> SpelledLabels] : n \in 1..MaxSquares}

\* square: z.string().optional(): omitted, empty, or one of the labels.
NoteSquareArgs == {<<>>, <<<<>>>>} \cup {<<l>> : l \in SpelledLabels}

\* const label = square ? square.toUpperCase() : null
NoteLabel(square) ==
  IF square = <<>> \/ square[1] = <<>>
  THEN <<>>
  ELSE <<toUpperCase(square[1])>>

NoteResult(garden_id, label, error, detail) ==
  [tool |-> "sfg_add_note", garden_id |-> garden_id, label |-> label,
   isError |-> error # "none", error |-> error, detail |-> detail]

sfg_add_note(garden_id, square, storeOk) ==
  /\ Len(notes) < MaxNotes
  /\ LET fetched == SelectSeq(gardens, LAMBDA g : g.id = garden_id)
         garden == fetched[1]
         label == NoteLabel(square)
     IN IF Len(fetched) # 1
        THEN /\ last' = NoteResult(garden_id, <<>>, "garden_not_found", <<>>)
             /\ UNCHANGED notes
        ELSE LET thrown == IF label # <<>>
                           THEN validateLabels(label, garden.cols, garden.rows)
                           ELSE NoError
             IN IF thrown.kind # "ok"
                THEN /\ last' = NoteResult(garden_id, label, "validation", thrown)
                     /\ UNCHANGED notes
                ELSE IF ~storeOk
                THEN /\ last' = NoteResult(garden_id, label, "store", <<>>)
                     /\ UNCHANGED notes
                ELSE /\ notes' = Append(notes,
                            [id |-> NoteId(Len(notes) + 1),
                             garden_id |-> garden_id, square |-> label])
                     /\ last' = NoteResult(garden_id, label, "none", <<>>)
  /\ UNCHANGED <<seedlings, plantings, gardens, harvests, retired,
               inflight, cachedSchema, catalog>>

AddNote ==
  \E garden_id \in GardenIdArgs, square \in NoteSquareArgs, storeOk \in BOOLEAN :
    sfg_add_note(garden_id, square, storeOk)

AddPlantingSpelled == AddPlantingFrom(SpelledLists, MaxPlantings)

NextNote ==
  \/ CreateGarden
  \/ AddPlantingSpelled
  \/ AddNote

SpecNote == Init /\ [][NextNote]_vars

NextPlanting ==
  \/ CreateGarden
  \/ AddPlanting
  \/ UpdatePlantingStatus

SpecPlanting == Init /\ [][NextPlanting]_vars

NextPlantingTwoSquares ==
  \/ CreateGarden
  \/ AddPlantingTwoSquares

SpecPlantingTwoSquares == Init /\ [][NextPlantingTwoSquares]_vars

(***************************************************************************)
(* Applications of the functions of utils/grid.ts.  The initial state      *)
(* holds the arguments, and an action applies the function to them.        *)
(***************************************************************************)
MaxCol == 10000
MaxPairCol == 710
MaxLabelLen == 4

NoTables ==
  /\ seedlings = <<>>
  /\ plantings = <<>>
  /\ gardens = <<>>
  /\ harvests = <<>>
  /\ notes = <<>>
  /\ retired = {}
  /\ inflight = NoCalls
  /\ cachedSchema = Null
  /\ catalog = 1

\* colToLetter(col), then letterToCol of its result.
InitColumns ==
  /\ NoTables
  /\ \E n \in 1..MaxCol : last = [tool |-> "arguments", col |-> n]

ColToLetter ==
  /\ last.tool = "arguments"
  /\ last' = [tool |-> "colToLetter", col |-> last.col,
               label |-> colToLetter(last.col)]
  /\ UNCHANGED <<seedlings, plantings, gardens, harvests, notes, retired,
               inflight, cachedSchema, catalog>>

LetterToCol ==
  /\ last.tool = "colToLetter"
  /\ last' = [tool |-> "letterToCol", letter |-> last.label,
               col |-> letterToCol(last.label), of |-> last.col]
  /\ UNCHANGED <<seedlings, plantings, gardens, harvests, notes, retired,
               inflight, cachedSchema, catalog>>

NextColumns ==
  \/ ColToLetter
  \/ LetterToCol

SpecColumns == InitColumns /\ [][NextColumns]_vars

\* colToLetter of two columns n1 < n2.
InitColumnPairs ==
  /\ NoTables
  /\ \E n1 \in 1..MaxPairCol : \E n2 \in (n1 + 1)..MaxPairCol :
       last = [tool |-> "arguments", n1 |-> n1, n2 |-> n2]

ColToLetterPair ==
  /\ last.tool = "arguments"
  /\ last' = [tool |-> "colToLetter", n1 |-> last.n1, n2 |-> last.n2,
               label1 |-> colToLetter(last.n1),
               label2 |-> colToLetter(last.n2)]
  /\ UNCHANGED <<seedlings, plantings, gardens, harvests, notes, retired,
               inflight, cachedSchema, catalog>>

NextColumnPairs == ColToLetterPair

SpecColumnPairs == InitColumnPairs /\ [][NextColumnPairs]_vars

GridSizes == {[cols |-> 4, rows |-> 4], [cols |-> 27, rows |-> 3]}

\* letterToCol of any short string, and the bounds check of validateLabels
\* on its result.
MaxLetterLen == 3

LetterChars == {"A", "b", "Z", "1", " "}

LetterInputs == UNION {[1..n -> LetterChars] : n \in 0..MaxLetterLen}

InitLetters ==
  /\ NoTables
  /\ \E letter \in LetterInputs, size \in GridSizes :
       last = [tool |-> "arguments", letter |-> letter, cols |-> size.cols]

\* letterToCol has no throw: it returns a number or NaN.
LetterToColChecked ==
  /\ last.tool = "arguments"
  /\ LET col == letterToCol(last.letter)
     IN last' = [tool |-> "letterToCol", letter |-> last.letter,
                 cols |-> last.cols, col |-> col,
                 thrown |-> FALSE,
                 outOfRange |-> ColumnOutOfRange(col, last.cols)]
  /\ UNCHANGED <<seedlings, plantings, gardens, harvests, notes, retired,
               inflight, cachedSchema, catalog>>

NextLetters == LetterToColChecked

SpecLetters == InitLetters /\ [][NextLetters]_vars

\* validateLabels of one label for a grid.
LabelChars == {"A", "b", "E", " ", "0", "1", "3", "9"}

LabelInputs == UNION {[1..n -> LabelChars] : n \in 1..MaxLabelLen}

InitValidate ==
  /\ NoTables
  /\ \E label \in LabelInputs, size \in GridSizes :
       last = [tool |-> "arguments", labels |-> <<label>>,
               cols |-> size.cols, rows |-> size.rows]

ValidateLabels ==
  /\ last.tool = "arguments"
  /\ last' = [tool |-> "validateLabels", labels |-> last.labels,
               cols |-> last.cols, rows |-> last.rows,
               thrown |-> validateLabels(last.labels, last.cols, last.rows)]
  /\ UNCHANGED <<seedlings, plantings, gardens, harvests, notes, retired,
               inflight, cachedSchema, catalog>>

NextValidate == ValidateLabels

SpecValidate == InitValidate /\ [][NextValidate]_vars

(***************************************************************************)
(* The server index: the schema documentation cache and the MCP endpoint.  *)
(* A request occupies a slot of `inflight` from its arrival to its         *)
(* response; it gives way at the await of the catalog queries and between  *)
(* the creation of its MCP server and the run of the tool it calls.  A     *)
(* request that is being served holds the instructions it got and whether  *)
(* they came from its own catalog queries (fetched) or from the cache.     *)
(***************************************************************************)
storeVars == <<seedlings, plantings, gardens, harvests, notes, retired>>

STATIC_INSTRUCTIONS == "static"

\* The string built from the rows of version v of the catalog: the fixed
\* sections followed by buildSchemaMarkdown, which orders tables and
\* columns itself and is a function of the rows read.
SchemaDoc(v) == "schema" \o ToString(v)

\* COLUMNS_QUERY, FK_QUERY, CHECK_QUERY
CatalogQueries == {"columns", "fk", "checks"}

CacheHit_never(cache) == FALSE

\* if (cachedSchema) return cachedSchema
CacheHit(cache) == Truthy(cache)

FetchResult_cachesFallback(failed, version, cache) ==
  IF failed # {}
  THEN [raised |-> FALSE, ret |-> STATIC_INSTRUCTIONS,
        cache |-> STATIC_INSTRUCTIONS]
  ELSE [raised |-> FALSE, ret |-> SchemaDoc(version), cache |-> SchemaDoc(version)]

FetchResult_raises(failed, version, cache) ==
  IF failed # {}
  THEN [raised |-> TRUE, ret |-> Null, cache |-> cache]
  ELSE [raised |-> FALSE, ret |-> SchemaDoc(version), cache |-> SchemaDoc(version)]

FetchResult_returnsMarkdown(failed, version, cache) ==
  IF failed # {}
  THEN [raised |-> FALSE, ret |-> STATIC_INSTRUCTIONS, cache |-> cache]
  ELSE [raised |-> FALSE, ret |-> "markdown" \o ToString(version),
        cache |-> SchemaDoc(version)]

\* fetchSchemaInstructions after Promise.all: `failed` are the queries whose
\* result has an error, `version` the catalog they read.  The value
\* returned, the new value of cachedSchema, and whether anything is thrown.
FetchResult(failed, version, cache) ==
  IF failed # {}
  THEN [raised |-> FALSE, ret |-> STATIC_INSTRUCTIONS, cache |-> cache]
  ELSE [raised |-> FALSE, ret |-> SchemaDoc(version), cache |-> SchemaDoc(version)]

\* Authorization headers: absent is <<>>, present is <<characters>>.
BearerPrefix == <<"B", "e", "a", "r", "e", "r", " ">>

LowerBearer == <<"b", "e", "a", "r", "e", "r", " ">>

AuthHeaders ==
  {<<>>, <<BearerPrefix \o <<"t">>>>, <<BearerPrefix \o <<"x">>>>,
   <<BearerPrefix>>, <<LowerBearer \o <<"t">>>>}

\* authHeader?.startsWith("Bearer ")
StartsWithBearer(authHeader) ==
  /\ authHeader # <<>>
  /\ Len(authHeader[1]) >= Len(BearerPrefix)
  /\ SubSeq(authHeader[1], 1, Len(BearerPrefix)) = BearerPrefix

\* authHeader.slice(7)
TokenOf(authHeader) == SubSeq(authHeader[1], 8, Len(authHeader[1]))

\* The answers of supabase.auth.getUser(token): t is the token of user U1.
GetUser(token) ==
  IF token = <<"t">>
  THEN {[error |-> FALSE, user |-> "U1"], [error |-> TRUE, user |-> Null]}
  ELSE {[error |-> TRUE, user |-> Null], [error |-> FALSE, user |-> Null]}

Rejected_onlyOnError(res) == res.error

\* if (userErr || !user)
Rejected(res) == res.error \/ res.user = Null

Methods == {"POST", "GET", "DELETE"}

RpcCalls == {"get_schema", "execute_sql", "initialize"}

resourceMetadataUrl == "/.well-known/oauth-protected-resource"

\* What a step of a request did: the response if it sent one, the catalog
\* queries it issued, whether a fetchSchemaInstructions call started in it,
\* the value such a call returned in it (<<>> if none returned), the
\* queries that failed, and whether it created an MCP server or ran SQL.
Step(step, r, status, www, queries, started, returned, failed, raised, server, sql) ==
  [tool |-> step, r |-> r, status |-> status, wwwAuthenticate |-> www,
   queries |-> queries, started |-> started, returned |-> returned,
   failed |-> failed, raised |-> raised, server |-> server, sql |-> sql]

Quiet(step, r, status, www) ==
  Step(step, r, status, www, 0, FALSE, <<>>, {}, FALSE, FALSE, FALSE)

\* The request of a step of app.get, app.delete or app.post: its header
\* and the user the auth service resolved for it (Null if none).
Asked(step, authHeader, user) ==
  step @@ [authHeader |-> authHeader, user |-> user]

\* app.get("/"), app.delete("/"), and app.post("/") up to the await of the
\* catalog queries.
Receive(r, method, authHeader) ==
  /\ inflight[r].pc = "idle"
  /\ IF method # "POST"
     THEN /\ last' = Asked(Quiet(method, r, "405", <<>>), authHeader, Null)
          /\ UNCHANGED inflight
     ELSE IF ~StartsWithBearer(authHeader)
     THEN /\ last' = Asked(Quiet(method, r, "401", <<resourceMetadataUrl>>),
                           authHeader, Null)
          /\ UNCHANGED inflight
     ELSE \E res \in GetUser(TokenOf(authHeader)) :
            IF Rejected(res)
            THEN /\ last' = Asked(Quiet(method, r, "401", <<resourceMetadataUrl>>),
                                  authHeader, res.user)
                 /\ UNCHANGED inflight
            ELSE IF CacheHit(cachedSchema)
            THEN /\ inflight' = [inflight EXCEPT ![r] =
                        [pc |-> "serving", user |-> res.user,
                         instructions |-> cachedSchema, fetched |-> FALSE]]
                 /\ last' = Asked(Step(method, r, "", <<>>, 0, TRUE,
                                       <<cachedSchema>>, {}, FALSE, TRUE, FALSE),
                                  authHeader, res.user)
            ELSE /\ inflight' = [inflight EXCEPT ![r] =
                        [pc |-> "fetching", user |-> res.user]]
                 /\ last' = Asked(Step(method, r, "", <<>>,
                                       Cardinality(CatalogQueries),
                                       TRUE, <<>>, {}, FALSE, FALSE, FALSE),
                                  authHeader, res.user)
  /\ UNCHANGED <<storeVars, cachedSchema, catalog>>

\* The catalog queries of the request are answered: fetchSchemaInstructions
\* returns to app.post, which creates the MCP server and connects it.
CatalogAnswers(r, failed) ==
  /\ inflight[r].pc = "fetching"
  /\ LET res == FetchResult(failed, catalog, cachedSchema)
     IN IF res.raised
        THEN /\ inflight' = [inflight EXCEPT ![r] = Idle]
             /\ last' = Step("fetchSchemaInstructions", r, "500", <<>>, 0, FALSE,
                             <<>>, failed, TRUE, FALSE, FALSE)
             /\ UNCHANGED cachedSchema
        ELSE /\ cachedSchema' = res.cache
             /\ inflight' = [inflight EXCEPT ![r] =
                    [pc |-> "serving", user |-> inflight[r].user,
                     instructions |-> res.ret, fetched |-> TRUE]]
             /\ last' = Step("fetchSchemaInstructions", r, "", <<>>, 0, FALSE,
                             <<res.ret>>, failed, FALSE, TRUE, FALSE)
  /\ UNCHANGED <<storeVars, catalog>>

\* transport.handleRequest runs the tool the request calls.
Dispatch(r, call) ==
  /\ inflight[r].pc = "serving"
  /\ IF call = "get_schema"
     THEN IF CacheHit(cachedSchema)
          THEN /\ inflight' = [inflight EXCEPT ![r] = Idle]
               /\ last' = Step(call, r, "200", <<>>, 0, TRUE, <<cachedSchema>>,
                               {}, FALSE, FALSE, FALSE)
          ELSE /\ inflight' = [inflight EXCEPT ![r].pc = "toolFetching"]
               /\ last' = Step(call, r, "", <<>>, Cardinality(CatalogQueries),
                               TRUE, <<>>, {}, FALSE, FALSE, FALSE)
     ELSE /\ inflight' = [inflight EXCEPT ![r] = Idle]
          /\ last' = Step(call, r, "200", <<>>, 0, FALSE, <<>>, {}, FALSE,
                          FALSE, call = "execute_sql")
  /\ UNCHANGED <<storeVars, cachedSchema, catalog>>

\* The catalog queries of a get_schema call are answered: the tool returns
\* the text, or an error result if fetchSchemaInstructions throws.
ToolCatalogAnswers(r, failed) ==
  /\ inflight[r].pc = "toolFetching"
  /\ LET res == FetchResult(failed, catalog, cachedSchema)
     IN /\ cachedSchema' = IF res.raised THEN cachedSchema ELSE res.cache
        /\ last' = Step("get_schema", r, "200", <<>>, 0, FALSE,
                        IF res.raised THEN <<>> ELSE <<res.ret>>,
                        failed, res.raised, FALSE, FALSE)
  /\ inflight' = [inflight EXCEPT ![r] = Idle]
  /\ UNCHANGED <<storeVars, catalog>>

\* A migration changes the catalog while the process runs.
CatalogChanges ==
  /\ catalog < MaxCatalog
  /\ catalog' = catalog + 1
  /\ last' = Quiet("migration", 0, "", <<>>)
  /\ UNCHANGED <<storeVars, inflight, cachedSchema>>

Request ==
  \E r \in Slots, method \in Methods, authHeader \in AuthHeaders :
    Receive(r, method, authHeader)

AnswerFetch ==
  \E r \in Slots, failed \in SUBSET CatalogQueries : CatalogAnswers(r, failed)

RunTool ==
  \E r \in Slots, call \in RpcCalls : Dispatch(r, call)

AnswerToolFetch ==
  \E r \in Slots, failed \in SUBSET CatalogQueries : ToolCatalogAnswers(r, failed)

NextServer ==
  \/ Request
  \/ AnswerFetch
  \/ RunTool
  \/ AnswerToolFetch
  \/ CatalogChanges

SpecServer == Init /\ [][NextServer]_vars

\* The server against a catalog that answers every query and does not
\* change.  The store answers each query it is sent, so a call that
\* awaits its catalog queries is eventually resumed.  A request is served
\* only after the cache is filled here, so get_schema never has to query.
AnswerFetchOk == \E r \in Slots : CatalogAnswers(r, {})

NextServerSteady ==
  \/ Request
  \/ AnswerFetchOk
  \/ RunTool

SpecServerSteady ==
  /\ Init
  /\ [][NextServerSteady]_vars
  /\ \A r \in Slots : WF_vars(CatalogAnswers(r, {}))

(***************************************************************************)
(* Generated ids: generateId, and the insert that follows it in            *)
(* sfg_add_planting.  In the specification below `plantings` holds the     *)
(* rows of the table by their id, a string of characters, and each slot    *)
(* of `inflight` is one generate-then-insert call.                         *)
(***************************************************************************)
MaxNear == 2

\* The width of the sequence number in an id.
PadWidth == 3

RECURSIVE NumberToString(_)
\* Number.prototype.toString of a non-negative integer.
NumberToString(n) ==
  IF n < 10 THEN <<Digits[n + 1]>>
  ELSE NumberToString(n \div 10) \o <<Digits[(n % 10) + 1]>>

\* String.prototype.padStart
padStart(str, width, fill) ==
  IF Len(str) >= width THEN str
  ELSE [i \in 1..(width - Len(str)) |-> fill] \o str

\* The days ids are generated on: year, month and day of `new Date()`.
Today == [year |-> 2026, month |-> 1, date |-> 2]
Yesterday == [year |-> 2026, month |-> 1, date |-> 1]

dateStr(today) ==
  NumberToString(today.year)
    \o padStart(NumberToString(today.month), 2, "0")
    \o padStart(NumberToString(today.date), 2, "0")

datePrefix(prefix, today) == <<prefix>> \o dateStr(today) \o <<"-">>

\* `${datePrefix}${seq.toString().padStart(3, "0")}`
FormatId(prefix, today, seq) ==
  datePrefix(prefix, today) \o padStart(NumberToString(seq), PadWidth, "0")

\* lastId.split("-").pop()
AfterLastDash(str) ==
  LET dashes == {i \in 1..Len(str) : str[i] = "-"}
      k == IF dashes = {} THEN 0
           ELSE CHOOSE i \in dashes : \A j \in dashes : j <= i
  IN SubSeq(str, k + 1, Len(str))

\* The order of the characters of an id in the store's text ordering.
Collation == <<"-">> \o Digits \o UpperLetters

RECURSIVE StringLt(_, _)
\* a sorts before b as text: character by character, a proper prefix first.
StringLt(a, b) ==
  IF b = <<>> THEN FALSE
  ELSE IF a = <<>> THEN TRUE
  ELSE IF Head(a) = Head(b) THEN StringLt(Tail(a), Tail(b))
  ELSE indexOf(Collation, Head(a)) < indexOf(Collation, Head(b))

\* .like("id", `${datePrefix}%`)
Like(id, prefix) ==
  Len(id) >= Len(prefix) /\ SubSeq(id, 1, Len(prefix)) = prefix

\* The one of two rows whose id sorts last as text.
Later(a, b) == IF StringLt(a.id, b.id) THEN b ELSE a

RECURSIVE Greatest(_, _, _)
\* The row of rows[lo..hi] whose id sorts last as text; each half is
\* worked out once.
Greatest(rows, lo, hi) ==
  IF lo = hi THEN rows[lo]
  ELSE CHOOSE r \in {Later(a, b) :
                       a \in {Greatest(rows, lo, (lo + hi) \div 2)},
                       b \in {Greatest(rows, (lo + hi) \div 2 + 1, hi)}} : TRUE

\* .like(...).order("id", { ascending: false }).limit(1)
LastIdQuery(rows, prefix) ==
  IF \A i \in 1..Len(rows) : ~Like(rows[i].id, prefix) THEN <<>>
  ELSE CHOOSE data \in {<<Greatest(matching, 1, Len(matching))>> :
                          matching \in {SelectSeq(rows, LAMBDA r : Like(r.id, prefix))}} :
         TRUE

\* generateId on a table with the given rows.  Only `data` of the answer is
\* read: a query that fails leaves it null, and seq stays 1.
SeqAfter(data) ==
  IF Len(data) > 0 THEN parseInt(AfterLastDash(data[1].id)) + 1 ELSE 1

generateId(rows, prefix, today, queryOk) ==
  IF queryOk
  THEN CHOOSE id \in {FormatId(prefix, today, SeqAfter(data)) :
                        data \in {LastIdQuery(rows, datePrefix(prefix, today))}} :
         TRUE
  ELSE FormatId(prefix, today, SeqAfter(<<>>))

\* The tables the inserts of one day build from an empty table, with the
\* numbers of rows taken next to each power of ten up to the width of the
\* sequence number, and with or without a row of the day before.
Pow10(e) == IF e = 0 THEN 1 ELSE IF e = 1 THEN 10 ELSE IF e = 2 THEN 100 ELSE 1000

RowCounts ==
  {n \in 0..Pow10(PadWidth) :
     n = 0 \/ \E e \in 0..PadWidth :
                 n - Pow10(e) <= MaxNear /\ Pow10(e) - n <= MaxNear}

DayTable(n) == [i \in 1..n |-> [id |-> FormatId("P", Today, i)]]

EarlierRows == {<<>>, <<[id |-> FormatId("P", Yesterday, 5)]>>}

InitIds ==
  /\ seedlings = <<>>
  /\ \E n \in RowCounts, earlier \in EarlierRows :
       plantings = earlier \o DayTable(n)
  /\ gardens = <<>>
  /\ harvests = <<>>
  /\ notes = <<>>
  /\ retired = {}
  /\ inflight = NoCalls
  /\ cachedSchema = Null
  /\ catalog = 1
  /\ last = [tool |-> "none", isError |-> FALSE, error |-> "none"]

\* const id = await generateId(supabase, "plantings", "P")
GenerateId(p, queryOk) ==
  /\ inflight[p].pc = "idle"
  /\ \E id \in {generateId(plantings, "P", Today, queryOk)} :
        /\ inflight' = [inflight EXCEPT ![p] = [pc |-> "generated", id |-> id]]
        /\ last' = [tool |-> "generateId", isError |-> FALSE, error |-> "none",
                    id |-> id, answered |-> queryOk,
                    stored |-> \E i \in 1..Len(plantings) : plantings[i].id = id,
                    held |-> \E q \in Slots \ {p} :
                                /\ inflight[q].pc = "generated"
                                /\ inflight[q].id = id]
  /\ UNCHANGED <<seedlings, plantings, gardens, harvests, notes, retired,
                 cachedSchema, catalog>>

\* supabase.from("plantings").insert({ id, ... }): the primary key refuses
\* an id that is stored already.
InsertId(p, storeOk) ==
  /\ inflight[p].pc = "generated"
  /\ LET id == inflight[p].id
         duplicate == \E i \in 1..Len(plantings) : plantings[i].id = id
     IN IF storeOk /\ ~duplicate
        THEN /\ plantings' = Append(plantings, [id |-> id])
             /\ last' = [tool |-> "insert", isError |-> FALSE, error |-> "none",
                         id |-> id]
        ELSE /\ UNCHANGED plantings
             /\ last' = [tool |-> "insert", isError |-> TRUE,
                         error |-> IF duplicate THEN "duplicate key" ELSE "store",
                         id |-> id]
  /\ inflight' = [inflight EXCEPT ![p] = [pc |-> "done"]]
  /\ UNCHANGED <<seedlings, gardens, harvests, notes, retired,
                 cachedSchema, catalog>>

GenerateIds == \E p \in Slots, queryOk \in BOOLEAN : GenerateId(p, queryOk)

InsertIds == \E p \in Slots, storeOk \in BOOLEAN : InsertId(p, storeOk)

NextIds ==
  \/ GenerateIds
  \/ InsertIds

SpecIds == InitIds /\ [][NextIds]_vars

(***************************************************************************)
(* Seedling lifecycle properties.                                          *)
(***************************************************************************)
\* The growth order the lifecycle is stated in; failed stands outside it.
LifecycleOrder == <<"sown", "germinated", "true_leaves", "hardening", "transplanted">>

OrderIdx(p) == indexOf(LifecycleOrder, p)

InOrder(p) == OrderIdx(p) >= 0

Terminal == {"transplanted", "failed"}

AdvanceTool == "sfg_advance_seedling_phase"

\* Index of the row with the given id in the seedlings table, 0 if none.
SeedlingRow(id) ==
  IF \E i \in 1..Len(seedlings) : seedlings[i].id = id
  THEN CHOOSE i \in 1..Len(seedlings) : seedlings[i].id = id
  ELSE 0

\* C1: between two consecutive states the index of a seedling's phase in
\* sown < germinated < true_leaves < hardening < transplanted never decreases;
\* the only other change of phase is into failed, and it is made by a
\* successful sfg_advance_seedling_phase call for that seedling with
\* target failed.
C1_PhaseIndexNeverDecreases ==
  [][\A i \in 1..Len(seedlings) :
       LET p == seedlings[i].phase
           q == seedlings'[i].phase
       IN /\ (InOrder(p) /\ InOrder(q)) => OrderIdx(q) >= OrderIdx(p)
          /\ (InOrder(p) /\ ~InOrder(q)) =>
               /\ q = "failed"
               /\ last'.tool = AdvanceTool
               /\ last'.seedling_id = seedlings[i].id
               /\ last'.phase = "failed"
               /\ ~last'.isError]_vars

\* A backward request on a seedling that has already advanced was made
\* and refused.
C1_Witness ==
  /\ last.tool = AdvanceTool
  /\ last.error = "invalid_transition"
  /\ InOrder(last.from) /\ InOrder(last.phase)
  /\ OrderIdx(last.phase) < OrderIdx(last.from)

\* C2: for a seedling whose phase is one of the five growth phases, a call
\* is refused as an invalid transition iff its target is not failed and
\* index(target) <= index(current); otherwise the stored phase becomes the
\* target (unless the store refuses the write), however many phases that skips.
C2_AcceptIffFailedOrForward ==
  [][(last'.tool = AdvanceTool /\ SeedlingRow(last'.seedling_id) # 0) =>
       LET i == SeedlingRow(last'.seedling_id)
           cur == seedlings[i].phase
           tgt == last'.phase
           ok == tgt = "failed" \/ OrderIdx(tgt) > OrderIdx(cur)
       IN InOrder(cur) =>
            /\ (last'.error = "invalid_transition") <=> ~ok
            /\ last'.error \in {"invalid_transition", "none", "store"}
            /\ last'.error = "none" => seedlings'[i].phase = tgt
            /\ last'.error # "none" => seedlings' = seedlings]_vars

\* A forward jump that skips at least one phase was applied.
C2_Witness ==
  /\ last.tool = AdvanceTool
  /\ last.error = "none"
  /\ InOrder(last.from) /\ InOrder(last.phase)
  /\ OrderIdx(last.phase) > OrderIdx(last.from) + 1
  /\ seedlings[SeedlingRow(last.seedling_id)].phase = last.phase

\* C3 as stated: a call applied to a seedling in a terminal phase can only
\* be the re-marking of failed as failed.
C3_Original ==
  (last.tool = AdvanceTool /\ last.from \in Terminal /\ last.error = "none") =>
    (last.from = "failed" /\ last.phase = "failed")

\* C3 amended: from a terminal phase the only target that is not refused is
\* failed (re-marking failed, or marking a transplanted seedling failed);
\* every other target is refused and leaves the seedling as it was.
C3_TerminalAcceptsOnlyFailed ==
  [][(last'.tool = AdvanceTool /\ SeedlingRow(last'.seedling_id) # 0) =>
       LET i == SeedlingRow(last'.seedling_id)
           cur == seedlings[i].phase
           tgt == last'.phase
       IN cur \in Terminal =>
            /\ (last'.error = "invalid_transition") <=> (tgt # "failed")
            /\ tgt # "failed" => seedlings' = seedlings
            /\ (tgt = "failed" /\ last'.error = "none") =>
                 seedlings'[i].phase = "failed"]_vars

\* A transplanted seedling was marked failed.
C3_Witness ==
  /\ last.tool = AdvanceTool
  /\ last.error = "none"
  /\ last.from = "transplanted"
  /\ last.phase = "failed"
  /\ seedlings[SeedlingRow(last.seedling_id)].phase = "failed"

\* C4: failed is absorbing: a seedling whose stored phase is failed has
\* phase failed in every next state.
C4_FailedAbsorbing ==
  [][\A i \in 1..Len(seedlings) :
       seedlings[i].phase = "failed" => seedlings'[i].phase = "failed"]_vars

\* A call asked to move a failed seedling to another phase.
C4_Witness ==
  /\ last.tool = AdvanceTool
  /\ last.from = "failed"
  /\ last.phase # "failed"
  /\ seedlings[SeedlingRow(last.seedling_id)].phase = "failed"

C6_PlantingIdOnlyOnTransplant ==
  [][/\ \A i \in 1..Len(seedlings) :
          seedlings'[i].planting_id # seedlings[i].planting_id =>
            /\ last'.tool = AdvanceTool
            /\ last'.seedling_id = seedlings[i].id
            /\ last'.error = "none"
            /\ last'.phase = "transplanted"
            /\ Truthy(last'.planting_id)
            /\ seedlings'[i].planting_id = last'.planting_id
     /\ \A i \in (Len(seedlings) + 1)..Len(seedlings') :
          seedlings'[i].planting_id = Null]_vars

\* A seedling was transplanted with a planting id and is linked to it.
C6_Witness ==
  /\ last.tool = AdvanceTool
  /\ last.error = "none"
  /\ last.phase = "transplanted"
  /\ Truthy(last.planting_id)
  /\ seedlings[SeedlingRow(last.seedling_id)].planting_id = last.planting_id


(***************************************************************************)
(* Planting conflict properties.                                           *)
(***************************************************************************)
AddTool == "sfg_add_planting"

\* The plantings of `table` that are active in garden g on the square
\* label sq.  A square is identified by its label as stored.
ActiveOn(table, g, sq) ==
  {i \in 1..Len(table) :
     /\ table[i].garden_id = g
     /\ table[i].status = "active"
     /\ table[i].square = sq}

\* The plantings of `table` that are active in garden g on a square of labels.
ActiveAmong(table, g, labels) ==
  UNION {ActiveOn(table, g, sq) : sq \in Range(labels)}

\* Number of entries of seq equal to x.
Count(seq, x) == Cardinality({k \in 1..Len(seq) : seq[k] = x})

\* Position of the first entry of labels equal to label.
FirstPos(labels, label) == indexOf(labels, label) + 1

\* The warnings w are one "<label> already has active planting: <plant name>"
\* for each planting of `table` in `hit`, and nothing else.
OnePerPlanting(w, table, hit) ==
  /\ Len(w) = Cardinality(hit)
  /\ \A i \in hit :
       Count(w, <<table[i].square, table[i].plant_name>>)
         = Cardinality({j \in hit :
              /\ table[j].square = table[i].square
              /\ table[j].plant_name = table[i].plant_name})

C8_Original ==
  [][(last'.tool = AddTool /\ ~last'.isError) =>
       \A sq \in Range(last'.labels) :
         LET on == ActiveOn(plantings', last'.garden_id, sq)
         IN (Cardinality(on) >= 2 /\ \E i \in on : i > Len(plantings)) =>
              \E k \in 1..Len(last'.warnings) :
                last'.warnings[k][1] = sq]_vars

\* Number of inserts a call that got past validation sent to the store:
\* the rows it created, and the insert that failed if one did.
Attempts(before, after, result) ==
  (Len(after) - Len(before)) + (IF result.error = "insert" THEN 1 ELSE 0)

PastValidation(result) ==
  result.tool = AddTool /\ result.error \in {"none", "insert"}

\* C9 as stated: a call that got past validation attempts one insert per
\* candidate label and leaves the earlier plantings as they were.
C9_Original ==
  [][PastValidation(last') =>
       /\ Attempts(plantings, plantings', last') = Len(last'.labels)
       /\ SubSeq(plantings', 1, Len(plantings)) = plantings]_vars

\* C9 amended: a call that got past validation inserts one new active
\* planting per candidate label, in list order, whether or not there are
\* conflicts, and stops only at the first insert the store rejects (the
\* labels after it are not attempted); the earlier plantings are unchanged.
C9_WarningsNeverBlock ==
  [][PastValidation(last') =>
       LET n == Len(plantings)
           made == Len(plantings') - n
           labels == last'.labels
       IN /\ SubSeq(plantings', 1, n) = plantings
          /\ made <= Len(labels)
          /\ \A i \in 1..made :
               /\ plantings'[n + i].square = labels[i]
               /\ plantings'[n + i].garden_id = last'.garden_id
               /\ plantings'[n + i].status = "active"
          /\ IF last'.error = "none"
             THEN made = Len(labels)
             ELSE /\ made < Len(labels)
                  /\ last'.detail = labels[made + 1]]_vars

\* A call returned conflict warnings and created its plantings all the same.
C9_Witness ==
  /\ last.tool = AddTool
  /\ ~last.isError
  /\ last.warnings # <<>>
  /\ Len(last.created) = Len(last.labels)
  /\ \A i \in 1..Len(last.created) :
       \E j \in 1..Len(plantings) :
         /\ plantings[j].id = last.created[i][1]
         /\ plantings[j].square = last.labels[i]
         /\ plantings[j].status = "active"

\* C10 as stated: in the result of a successful call, the warnings for a
\* candidate square that comes earlier in the list precede the warnings
\* for one that comes later.
C10_Original ==
  (last.tool = AddTool /\ ~last.isError) =>
    \A k1, k2 \in 1..Len(last.warnings) :
      FirstPos(last.labels, last.warnings[k1][1])
        < FirstPos(last.labels, last.warnings[k2][1]) => k1 < k2

(***************************************************************************)
(* Planting status and harvest properties.                                 *)
(***************************************************************************)
HarvestTool == "sfg_record_harvest"

\* C11 as stated: a planting whose status has once been harvested or failed
\* gets no warning from any later call: the warnings a successful call
\* returns for a candidate square are at most as many as the active
\* plantings on that square that were never harvested or failed.
C11_Original ==
  [][(last'.tool = AddTool /\ ~last'.isError) =>
       \A sq \in Range(last'.labels) :
         Cardinality({k \in 1..Len(last'.warnings) : last'.warnings[k][1] = sq})
           <= Cardinality({i \in ActiveOn(plantings, last'.garden_id, sq) :
                             plantings[i].id \notin retired})]_vars

\* C12: a sfg_record_harvest call keeps the earlier harvest rows as they
\* are and appends at most one row, for a planting that exists; it changes
\* no planting unless mark_complete is true, and then only the status of
\* the referenced planting, which becomes harvested.
C12_HarvestAppendsOnly ==
  [][last'.tool = HarvestTool =>
       LET n == Len(harvests)
       IN /\ Len(harvests') \in {n, n + 1}
          /\ SubSeq(harvests', 1, n) = harvests
          /\ Len(harvests') = n + 1 =>
               /\ harvests'[n + 1].planting_id = last'.planting_id
               /\ \E i \in 1..Len(plantings) :
                    plantings[i].id = last'.planting_id
          /\ Len(plantings') = Len(plantings)
          /\ last'.mark_complete # "true" => plantings' = plantings
          /\ \A i \in 1..Len(plantings) :
               plantings'[i] # plantings[i] =>
                 /\ plantings[i].id = last'.planting_id
                 /\ plantings'[i] = [plantings[i] EXCEPT !.status = "harvested"]
                 /\ Len(harvests') = n + 1]_vars

\* A second harvest with mark_complete was recorded for one of two
\* plantings: it is harvested, the other one is still active, and the
\* first harvest row is still there.
C12_Witness ==
  /\ last.tool = HarvestTool
  /\ ~last.isError
  /\ last.mark_complete = "true"
  /\ Len(harvests) = 2
  /\ harvests[2].id = last.id
  /\ \E i, j \in 1..Len(plantings) :
       /\ plantings[i].id = last.planting_id
       /\ plantings[i].status = "harvested"
       /\ plantings[j].id # last.planting_id
       /\ plantings[j].status = "active"

\* C13: a call that found its garden and whose labels validated never ends
\* with an error of the conflict check: its result is a success or the
\* error of an insert, at least one insert was sent to the store, and when
\* the store answered the occupancy query with an error or with no rows
\* the warning list of a success is empty.
C13_ConflictStepNeverErrors ==
  [][(last'.tool = AddTool
        /\ last'.error \notin {"garden_not_found", "validation"}) =>
       /\ last'.error \in {"none", "insert"}
       /\ Attempts(plantings, plantings', last') >= 1
       /\ (last'.error = "none"
             /\ (last'.lookupError
                  \/ ActiveAmong(plantings, last'.garden_id, last'.labels) = {}))
            => last'.warnings = <<>>]_vars

\* The store answered the occupancy query of a call with an error while
\* the square held an active planting, and the call created its plantings
\* with an empty warning list.
C13_Witness ==
  /\ last.tool = AddTool
  /\ last.lookupError
  /\ ~last.isError
  /\ last.warnings = <<>>
  /\ Len(last.created) = Len(last.labels)
  /\ \E i \in ActiveAmong(plantings, last.garden_id, last.labels) :
       plantings[i].id \notin {last.created[k][1] : k \in 1..Len(last.created)}

(***************************************************************************)
(* Grid label properties.                                                  *)
(***************************************************************************)
\* Position of a letter in the alphabet, A = 1.
LetterRank(c) == indexOf(UpperLetters, c) + 1

\* The spreadsheet column order: shorter labels first, labels of one length
\* alphabetically.
SortsBefore(a, b) ==
  \/ Len(a) < Len(b)
  \/ /\ Len(a) = Len(b)
     /\ \E k \in 1..Len(a) :
          /\ \A j \in 1..(k - 1) : a[j] = b[j]
          /\ LetterRank(a[k]) < LetterRank(b[k])

\* The labels of the first columns, as the claim lists them.
KnownColumns ==
  [n \in {1, 26, 27, 28} |->
     CASE n = 1 -> <<"A">>
       [] n = 26 -> <<"Z">>
       [] n = 27 -> <<"A", "A">>
       [] n = 28 -> <<"A", "B">>]

\* C14: for every column n of 1..MaxCol, colToLetter(n) is a non-empty
\* string of the letters A-Z (A for 1, Z for 26, AA for 27, AB for 28) and
\* letterToCol gives n back for it.
C14_RoundTrip ==
  /\ last.tool = "colToLetter" =>
       /\ last.label # <<>>
       /\ \A k \in 1..Len(last.label) : last.label[k] \in UpperClass
       /\ last.col \in DOMAIN KnownColumns => last.label = KnownColumns[last.col]
  /\ last.tool = "letterToCol" => last.col = <<last.of>>

\* The round trip was made for the last column of the range, which has
\* more than one letter.
C14_Witness ==
  /\ last.tool = "letterToCol"
  /\ last.of = MaxCol
  /\ Len(last.letter) > 1
  /\ last.col = <<MaxCol>>

\* C15: for columns n1 < n2, colToLetter(n1) sorts before colToLetter(n2)
\* in the order by length and then alphabetically.
C15_Monotonic ==
  (last.tool = "colToLetter" /\ "n1" \in DOMAIN last) =>
    /\ SortsBefore(last.label1, last.label2)
    /\ ~SortsBefore(last.label2, last.label1)

\* The last two-letter column and the first three-letter column were
\* compared.
C15_Witness ==
  /\ last.tool = "colToLetter"
  /\ "n1" \in DOMAIN last
  /\ last.n1 = 26 * 27
  /\ last.n2 = 26 * 27 + 1
  /\ Len(last.label1) < Len(last.label2)

\* The label without the blanks around it.
Stripped(label) ==
  LET inked == {i \in 1..Len(label) : label[i] \notin Whitespace}
  IN IF inked = {} THEN <<>>
     ELSE SubSeq(label, CHOOSE i \in inked : \A j \in inked : i <= j,
                        CHOOSE i \in inked : \A j \in inked : i >= j)

\* The label in capitals.
Capitals(label) ==
  [i \in 1..Len(label) |->
     IF indexOf(LowerLetters, label[i]) >= 0
     THEN UpperLetters[indexOf(LowerLetters, label[i]) + 1]
     ELSE label[i]]

\* The places k at which s splits into k letters and then digits only.
Splits(s) ==
  {k \in 1..(Len(s) - 1) :
     /\ \A i \in 1..k : s[i] \in UpperClass
     /\ \A i \in (k + 1)..Len(s) : s[i] \in DigitClass}

RECURSIVE Power(_, _)
Power(b, e) == IF e = 0 THEN 1 ELSE b * Power(b, e - 1)

RECURSIVE PlaceSum(_, _)
\* Sum of value[i] * base^(n - i) over the places of a numeral.
PlaceSum(value, base) ==
  IF value = <<>> THEN 0
  ELSE Head(value) * Power(base, Len(value) - 1) + PlaceSum(Tail(value), base)

\* The column a string of letters denotes: A = 1, ..., Z = 26, AA = 27.
ColumnOf(letters) ==
  PlaceSum([i \in 1..Len(letters) |-> LetterRank(letters[i])], 26)

\* The row a string of digits denotes.
RowOf(digits) ==
  PlaceSum([i \in 1..Len(digits) |-> indexOf(Digits, digits[i])], 10)

\* The parts of a label that reads as letters and then digits.
Parsed(label) ==
  LET s == Capitals(Stripped(label))
      k == IF Splits(s) = {} THEN 0 ELSE CHOOSE k \in Splits(s) : TRUE
  IN [ok |-> Splits(s) # {},
      letters |-> SubSeq(s, 1, k),
      digits |-> SubSeq(s, k + 1, Len(s))]

InGrid(label, cols, rows) ==
  /\ Parsed(label).ok
  /\ ColumnOf(Parsed(label).letters) \in 1..cols
  /\ RowOf(Parsed(label).digits) \in 1..rows

ValidatedOne ==
  last.tool = "validateLabels" /\ Len(last.labels) = 1

\* C16: validateLabels accepts a label for a grid iff, without the blanks
\* around it and in capitals, it is one or more letters followed by one or
\* more digits, the letters denote a column of 1..cols and the digits a
\* row of 1..rows.
C16_AcceptsIffInGrid ==
  ValidatedOne =>
    (last.thrown.kind = "ok"
       <=> InGrid(last.labels[1], last.cols, last.rows))

\* AA1, in column 27, was accepted for the grid of 27 columns.
C16_Witness ==
  /\ ValidatedOne
  /\ last.cols = 27
  /\ last.labels[1] = <<"A", "A", "1">>
  /\ last.thrown.kind = "ok"

\* C17: a refused label gets exactly one error kind: InvalidLabel when it
\* is not letters then digits; otherwise ColumnOutOfRange, with the range
\* A to colToLetter(cols), when its column is outside 1..cols, whatever
\* its row; otherwise RowOutOfRange when its row is outside 1..rows.  The
\* error names the label.
C17_ErrorKinds ==
  ValidatedOne =>
    LET label == last.labels[1]
        p == Parsed(label)
        e == last.thrown
    IN /\ ~p.ok => e.kind = "InvalidLabel"
       /\ (p.ok /\ ColumnOf(p.letters) \notin 1..last.cols) =>
            /\ e.kind = "ColumnOutOfRange"
            /\ e.detail = <<p.letters, colToLetter(last.cols)>>
       /\ (p.ok /\ ColumnOf(p.letters) \in 1..last.cols
             /\ RowOf(p.digits) \notin 1..last.rows) =>
            /\ e.kind = "RowOutOfRange"
            /\ e.detail = <<RowOf(p.digits), last.rows>>
       /\ e.kind # "ok" => e.label = label

\* E9, outside the 4x4 grid by its column and by its row, was refused
\* for its column, with the range A to D.
C17_Witness ==
  /\ ValidatedOne
  /\ last.cols = 4
  /\ last.labels[1] = <<"E", "9">>
  /\ last.thrown.kind = "ColumnOutOfRange"
  /\ last.thrown.detail = <<<<"E">>, <<"D">>>>

(***************************************************************************)
(* Stored label properties.                                                *)
(***************************************************************************)
NoteTool == "sfg_add_note"

\* The garden with the given id.
GardenOf(id) == CHOOSE g \in Range(gardens) : g.id = id

\* The places of the labels that are not squares of the garden.
Outside(labels, garden) ==
  {i \in 1..Len(labels) : ~InGrid(labels[i], garden.cols, garden.rows)}

C19_StoredLabelsInGrid ==
  /\ \A i \in 1..Len(plantings) :
       LET g == GardenOf(plantings[i].garden_id)
       IN InGrid(plantings[i].square, g.cols, g.rows)
  /\ \A i \in 1..Len(notes) :
       notes[i].square # <<>> =>
         LET g == GardenOf(notes[i].garden_id)
         IN InGrid(notes[i].square[1], g.cols, g.rows)

\* A planting and a note with a square are stored, and the last call was
\* refused for a label outside the garden.
C19_Witness ==
  /\ Len(plantings) >= 1
  /\ \E i \in 1..Len(notes) : notes[i].square # <<>>
  /\ last.tool = AddTool
  /\ last.error = "validation"

\* The normalized spelling of a square: column letters in capitals, then
\* the row in base 10 without leading zeros, and nothing around them.
Normalized(label) ==
  /\ Splits(label) # {}
  /\ LET k == CHOOSE k \in Splits(label) : TRUE
     IN label[k + 1] # "0"

\* C20 as stated: every square label stored on a planting or on a note is
\* the normalized spelling of its square.
C20_Original ==
  /\ \A i \in 1..Len(plantings) : Normalized(plantings[i].square)
  /\ \A i \in 1..Len(notes) :
       notes[i].square # <<>> => Normalized(notes[i].square[1])

(***************************************************************************)
(* letterToCol on strings that are not column letters.                     *)
(***************************************************************************)
\* A non-empty string of letters, in either case.
IsLetters(str) ==
  /\ str # <<>>
  /\ \A i \in 1..Len(str) :
       indexOf(UpperLetters, str[i]) >= 0 \/ indexOf(LowerLetters, str[i]) >= 0

\* C21 as stated: for the empty string and for a string with a character
\* that is not a letter, letterToCol signals an error, or at least gives a
\* value that the caller's check of 1..cols refuses.
C21_Original ==
  (last.tool = "letterToCol" /\ "outOfRange" \in DOMAIN last
     /\ ~IsLetters(last.letter)) =>
    (last.thrown \/ last.outOfRange)

(***************************************************************************)
(* Atomicity of sfg_add_planting.                                          *)
(***************************************************************************)
\* C28 as stated: a call that returns an error result leaves no planting
\* of its own in the store.
C28_Original ==
  [][(last'.tool = AddTool /\ last'.isError) => plantings' = plantings]_vars

(***************************************************************************)
(* Schema cache and endpoint properties.                                   *)
(***************************************************************************)
FetchTools == {"fetchSchemaInstructions", "get_schema"}

\* The step is the return of a fetchSchemaInstructions call that had
\* issued the catalog queries.
Answered(l) == l.tool \in FetchTools /\ ~l.started

\* C22: a fetchSchemaInstructions call whose queries all succeeded leaves
\* the cache filled, the cache is never emptied again, and a call that
\* starts while the cache is filled returns the cached string and issues no
\* catalog query.
C22_CachedAfterSuccess ==
  [][/\ (Answered(last') /\ last'.failed = {}) => Truthy(cachedSchema')
     /\ Truthy(cachedSchema) => Truthy(cachedSchema')
     /\ (last'.started /\ Truthy(cachedSchema)) =>
          /\ last'.returned = <<cachedSchema>>
          /\ last'.queries = 0
          /\ cachedSchema' = cachedSchema]_vars

\* A get_schema call that started with the cache filled returned the
\* cached documentation without a query.
C22_Witness ==
  /\ last.tool = "get_schema"
  /\ last.started
  /\ last.queries = 0
  /\ Truthy(cachedSchema)
  /\ last.returned = <<cachedSchema>>
  /\ cachedSchema # STATIC_INSTRUCTIONS

\* C23: a call of which a catalog query fails leaves the cache as it was
\* (empty if it was empty) and returns the static text; a call that starts
\* with the cache empty issues the three queries; a call whose three
\* queries succeed caches and returns the documentation of the catalog.
C23_FailureCachesNothing ==
  [][/\ (Answered(last') /\ last'.failed # {}) =>
          /\ cachedSchema' = cachedSchema
          /\ last'.returned = <<STATIC_INSTRUCTIONS>>
     /\ (Answered(last') /\ last'.failed = {}) =>
          /\ cachedSchema' = SchemaDoc(catalog)
          /\ last'.returned = <<SchemaDoc(catalog)>>
     /\ (last'.started /\ cachedSchema = Null) =>
          /\ last'.queries = Cardinality(CatalogQueries)
          /\ last'.returned = <<>>]_vars

\* A request got the static text from a failing catalog, and after it
\* another call computed and cached the documentation.
C23_Witness ==
  /\ Answered(last)
  /\ last.failed = {}
  /\ cachedSchema = SchemaDoc(catalog)
  /\ \E r \in Slots :
       /\ r # last.r
       /\ inflight[r].pc = "serving"
       /\ inflight[r].instructions = STATIC_INSTRUCTIONS

\* C24: when a catalog query fails, nothing is thrown: the call returns the
\* static text; app.post goes on to create the MCP server with it, and
\* get_schema answers with it as an ordinary result.
C24_FailureNotSurfaced ==
  [][(Answered(last') /\ last'.failed # {}) =>
       /\ ~last'.raised
       /\ last'.returned = <<STATIC_INSTRUCTIONS>>
       /\ last'.status # "500"
       /\ last'.tool = "fetchSchemaInstructions" =>
            /\ last'.server
            /\ inflight'[last'.r].pc = "serving"
            /\ inflight'[last'.r].instructions = STATIC_INSTRUCTIONS
       /\ last'.tool = "get_schema" => last'.status = "200"]_vars

\* All three catalog queries of a get_schema call failed and the tool
\* answered with the static text.
C24_Witness ==
  /\ last.tool = "get_schema"
  /\ Answered(last)
  /\ last.failed = CatalogQueries
  /\ last.status = "200"
  /\ last.returned = <<STATIC_INSTRUCTIONS>>
  /\ ~last.raised

\* C27 as stated: once the cache holds a value, the value never changes.
C27_Original ==
  [][Truthy(cachedSchema) => cachedSchema' = cachedSchema]_vars

\* The header is "Bearer " followed by a token.
CarriesBearer(authHeader) ==
  /\ authHeader # <<>>
  /\ \E n \in 0..Len(authHeader[1]) :
       authHeader[1] = BearerPrefix \o SubSeq(authHeader[1], Len(authHeader[1]) - n + 1,
                                               Len(authHeader[1]))

\* The step issued catalog queries, created an MCP server or ran SQL.
Worked(l) == l.queries > 0 \/ l.server \/ l.sql

HasUser(slot) == "user" \in DOMAIN slot /\ slot.user # Null

\* C30: a POST whose header is not a Bearer token that the auth service
\* resolves to a user is answered 401 with the WWW-Authenticate header
\* naming the resource metadata URL, and GET and DELETE are answered 405;
\* neither issues a catalog query, creates an MCP server or runs SQL, and
\* every step that does belongs to a request with a resolved user.
C30_NothingWithoutUser ==
  [][/\ last'.tool = "POST" =>
          IF CarriesBearer(last'.authHeader) /\ last'.user # Null
          THEN last'.status # "401" /\ HasUser(inflight'[last'.r])
          ELSE /\ last'.status = "401"
               /\ last'.wwwAuthenticate = <<resourceMetadataUrl>>
               /\ ~Worked(last')
               /\ UNCHANGED <<inflight, cachedSchema>>
     /\ last'.tool \in {"GET", "DELETE"} =>
          /\ last'.status = "405"
          /\ ~Worked(last')
          /\ UNCHANGED <<inflight, cachedSchema>>
     /\ Worked(last') =>
          /\ last'.r \in Slots
          /\ HasUser(inflight[last'.r]) \/ HasUser(inflight'[last'.r])
     /\ \A r \in Slots :
          (inflight[r].pc = "idle" /\ inflight'[r].pc # "idle") =>
            /\ last'.tool = "POST"
            /\ last'.r = r
            /\ last'.user # Null]_vars

\* A POST with a Bearer token that the auth service does not know was
\* answered 401 with the metadata URL.
C30_Witness ==
  /\ last.tool = "POST"
  /\ last.authHeader = <<BearerPrefix \o <<"x">>>>
  /\ last.status = "401"
  /\ last.wwwAuthenticate = <<resourceMetadataUrl>>
  /\ inflight = NoCalls

\* The call of slot r awaits its catalog queries.
Awaiting(r) == inflight[r].pc \in {"fetching", "toolFetching"}

C26_Original ==
  [][\A i \in 1..Len(seedlings) :
       indexOf(PHASES, seedlings'[i].phase)
         >= indexOf(PHASES, seedlings[i].phase)]_vars

(***************************************************************************)
(* Generated ids.                                                          *)
(***************************************************************************)
\* C29 as stated, for the calls whose query the store answered: the id
\* generateId returns is not stored in the table already and is not an id
\* another call has been given and still holds, after any number of inserts
\* on the day and when calls overlap.
C29_Original ==
  (last.tool = "generateId" /\ last.answered) => ~last.stored /\ ~last.held

====
